---- MODULE Spec2Model ----
(***************************************************************************)
(* lode-star: the broadcast server (ClientThread, core.py), the           *)
(* file-backed generators (FileGenerator, core.py and generators/*.py)    *)
(* and the sentence codec (NMEAEncoder, NMEADecoder, core.py).            *)
(*                                                                         *)
(* Spec      the broadcast server: its loop thread, the callers of        *)
(*           stop(), the producers calling add_data() and connecting      *)
(*           peers.                                                        *)
(* LiveSpec  the same server with producers that never run out of pairs   *)
(*           and a fairly scheduled loop thread.                           *)
(* StallSpec the server of Spec with peers that may stop reading and a    *)
(*           fairly scheduled loop thread.                                 *)
(* GenSpec   construction of a CSV / GeoJSON / NMEA generator from a file *)
(*           and pulls from it.                                            *)
(* CodecSpec NMEAEncoder on a Position and NMEADecoder on the lines it    *)
(*           wrote, and NMEADecoder on lines of any shape.                *)
(***************************************************************************)
EXTENDS Integers, Sequences, FiniteSets, TLC

\* ---------------------------------------------------------------- bounds
MaxClients == 2      \* peers that ever connect
MaxPairs == 2        \* sentence pairs the producers enqueue (Spec)
MaxStops == 1        \* calls of stop()
MaxQueue == 2        \* queue length the never-ending producer keeps to (LiveSpec)
MaxRows == 3         \* rows / features / lines of a route file (GenSpec)

Conns == 1..MaxClients
Stoppers == 1..MaxStops

\* ------------------------------------------------------------- variables
VARIABLES
    portFree,       \* environment: whether the configured port can be bound
    started,        \* outcome of start() for its caller: "none" | "returned" | "raised";
                    \* "refused": it returned, and a later start() raised RuntimeError
    running,        \* self._running
    serverSocket,   \* self._server_socket: "none" | "created" | "listening" | "closed"
    clients,        \* self._clients, a list of connections
    dataQueue,      \* self._data_queue, a FIFO of (rmc, gga) tuples
    lock,           \* self._lock: "free" | "loop"
    pc,             \* position of the loop thread inside run()
    acc,            \* conn returned by accept() and not yet appended (0: none)
    cur,            \* the tuple (rmc, gga) taken by get() (<<>>: none)
    snap,           \* rest of the copy self._clients[:] that _broadcast iterates
    threadExc,      \* run() left the thread with an exception
    backlog,        \* connections the peers opened that accept() has not returned
    conn,           \* each connection's socket on the server side: "none" | "pending" |
                    \* "open" | "closed"; "stalled": open, the peer has stopped
                    \* reading and the buffers are full, so a write blocks
    sent,           \* per connection, the sentences sendall() wrote, in order
    stopPc,         \* position of each caller of stop()
    nextId,         \* number of the next pair a producer enqueues
    deqLog,         \* history: the pairs get() returned, in order
    setAtDeq,       \* history: per pair, the client set when get() returned it
    setAtLock,      \* history: per pair, the client set when _broadcast took the lock
    failed,         \* history: <<conn, pair>> for each write that raised
    bcastDone,      \* history: the pairs whose _broadcast returned
    gen,            \* the generator under construction or in use (GenSpec)
    codec           \* the encoder and decoder at work on a position or a line (CodecSpec)

srvVars == <<portFree, started, running, serverSocket, clients, dataQueue, lock, pc,
             acc, cur, snap, threadExc, backlog, conn, sent, stopPc, nextId,
             deqLog, setAtDeq, setAtLock, failed, bcastDone>>

vars == <<srvVars, gen, codec>>

\* --------------------------------------------------------------- helpers
Range(s) == {s[i] : i \in 1..Len(s)}

\* list.remove(x): drops the first element equal to x
RECURSIVE list_remove(_, _)
list_remove(s, x) ==
    IF s = <<>> THEN <<>>
    ELSE IF Head(s) = x THEN Tail(s)
    ELSE <<Head(s)>> \o list_remove(Tail(s), x)

\* A sentence is <<kind, n>>: the RMC or the GGA sentence of pair n.
\* Pair 0 stands for the pairs of a producer that never stops (LiveSpec);
\* the sequence-valued histories (sent, deqLog) do not record it.
RmcOf(n) == <<"RMC", n>>
GgaOf(n) == <<"GGA", n>>
PairId(item) == item[1][2]
Log(h, e, n) == IF n = 0 THEN h ELSE Append(h, e)

\* ---------------------------------------------------------- program data
ListenBacklog == 5   \* self._server_socket.listen(5)

\* Queue.get() on the FIFO queue.Queue: the oldest item and the rest
queue_pop_last(q) == <<q[Len(q)], SubSeq(q, 1, Len(q) - 1)>>
queue_pop(q) == <<Head(q), Tail(q)>>

\* for conn in self._clients[:] : the copy _broadcast iterates
clients_copy_tail(cl) == IF cl = <<>> THEN cl ELSE Tail(cl)
clients_copy(cl) == cl

\* the two sendall() calls of _broadcast(rmc, gga), in program order
bcast_order_swapped(rmc, gga) == <<gga, rmc>>
bcast_order_stale(rmc, gga) == <<rmc, GgaOf(gga[2] - 1)>>
bcast_order(rmc, gga) == <<rmc, gga>>

\* self._clients.remove(conn) in the except branch of _broadcast
keep_client(cl, c) == cl
drop_client(cl, c) == list_remove(cl, c)

\* socket.close() on self._server_socket (a closed socket stays closed)
close_socket(s) == IF s = "none" THEN "none" ELSE "closed"

\* conn.close() for every conn of self._clients
close_all(cn, cl) == [c \in Conns |-> IF c \in Range(cl) THEN "closed" ELSE cn[c]]

\* ------------------------------------------------------------------ Init
SrvInit ==
    /\ started = "none"
    /\ running = TRUE
    /\ serverSocket = "none"
    /\ clients = <<>>
    /\ dataQueue = <<>>
    /\ lock = "free"
    /\ pc = "unstarted"
    /\ acc = 0
    /\ cur = <<>>
    /\ snap = <<>>
    /\ threadExc = FALSE
    /\ backlog = <<>>
    /\ conn = [c \in Conns |-> "none"]
    /\ sent = [c \in Conns |-> <<>>]
    /\ stopPc = [s \in Stoppers |-> "idle"]
    /\ nextId = 1
    /\ deqLog = <<>>
    /\ setAtDeq = [n \in 0..MaxPairs |-> {}]
    /\ setAtLock = [n \in 0..MaxPairs |-> {}]
    /\ failed = {}
    /\ bcastDone = {}

histVars == <<deqLog, setAtDeq, setAtLock, failed, bcastDone>>

\* --------------------------------------------------- callers of the server
\* Thread.start(): the thread begins run(); start() itself returns to its
\* caller whatever run() later does (an exception of run() ends the thread).
\* A second start() of the same Thread object raises RuntimeError ("threads can
\* only be started once") and starts nothing.
start_restart ==
    /\ IF started = "none" \/ pc = "done"
       THEN started' = "returned" /\ pc' = "socket"
       ELSE started' = "refused" /\ UNCHANGED pc
    /\ UNCHANGED <<gen, codec, portFree, running, serverSocket, clients, dataQueue, lock, acc, cur,
                   snap, threadExc, backlog, conn, sent, stopPc, nextId, histVars>>
start ==
    /\ IF started = "none"
       THEN started' = "returned" /\ pc' = "socket"
       ELSE started' = "refused" /\ UNCHANGED pc
    /\ UNCHANGED <<gen, codec, portFree, running, serverSocket, clients, dataQueue, lock, acc, cur,
                   snap, threadExc, backlog, conn, sent, stopPc, nextId, histVars>>

\* add_data(rmc, gga): self._data_queue.put((rmc, gga)) on the unbounded Queue():
\* put takes no lock of the server and waits for nothing
add_data_locked ==
    /\ nextId <= MaxPairs
    /\ lock = "free"
    /\ dataQueue' = Append(dataQueue, <<RmcOf(nextId), GgaOf(nextId)>>)
    /\ nextId' = nextId + 1
    /\ UNCHANGED <<gen, codec, portFree, started, running, serverSocket, clients, lock, pc, acc, cur,
                   snap, threadExc, backlog, conn, sent, stopPc, histVars>>
add_data ==
    /\ nextId <= MaxPairs
    /\ dataQueue' = Append(dataQueue, <<RmcOf(nextId), GgaOf(nextId)>>)
    /\ nextId' = nextId + 1
    /\ UNCHANGED <<gen, codec, portFree, started, running, serverSocket, clients, lock, pc, acc, cur,
                   snap, threadExc, backlog, conn, sent, stopPc, histVars>>

\* add_data by a producer that never runs out of pairs
add_data_steady ==
    /\ Len(dataQueue) < MaxQueue
    /\ dataQueue' = Append(dataQueue, <<RmcOf(0), GgaOf(0)>>)
    /\ UNCHANGED <<gen, codec, portFree, started, running, serverSocket, clients, lock, pc, acc, cur,
                   snap, threadExc, backlog, conn, sent, stopPc, nextId, histVars>>

\* stop(), line 438: self._running = False
stop_running(s) ==
    /\ stopPc[s] = "idle"
    /\ started # "none"
    /\ running' = FALSE
    /\ stopPc' = [stopPc EXCEPT ![s] = "cleanup"]
    /\ UNCHANGED <<gen, codec, portFree, started, serverSocket, clients, dataQueue, lock, pc, acc, cur,
                   snap, threadExc, backlog, conn, sent, nextId, histVars>>

\* stop() -> _cleanup(), lines 388-394: under the lock, close and clear the clients
stop_cleanup_clients(s) ==
    /\ stopPc[s] = "cleanup"
    /\ lock = "free"
    /\ conn' = close_all(conn, clients)
    /\ clients' = <<>>
    /\ stopPc' = [stopPc EXCEPT ![s] = "socket"]
    /\ UNCHANGED <<gen, codec, portFree, started, running, serverSocket, dataQueue, lock, pc, acc, cur,
                   snap, threadExc, backlog, sent, nextId, histVars>>

\* stop() -> _cleanup(), lines 396-400: close the listening socket; stop() returns
stop_cleanup_socket(s) ==
    /\ stopPc[s] = "socket"
    /\ serverSocket' = close_socket(serverSocket)
    /\ stopPc' = [stopPc EXCEPT ![s] = "returned"]
    /\ UNCHANGED <<gen, codec, portFree, started, running, clients, dataQueue, lock, pc, acc, cur,
                   snap, threadExc, backlog, conn, sent, nextId, histVars>>

\* a peer connects to the listening port and waits in the backlog
connect ==
    /\ serverSocket = "listening"
    /\ Len(backlog) < ListenBacklog
    /\ \E c \in Conns :
        /\ conn[c] = "none"
        /\ \A d \in Conns : d < c => conn[d] # "none"
        /\ conn' = [conn EXCEPT ![c] = "pending"]
        /\ backlog' = Append(backlog, c)
    /\ UNCHANGED <<gen, codec, portFree, started, running, serverSocket, clients, dataQueue, lock, pc,
                   acc, cur, snap, threadExc, sent, stopPc, nextId, histVars>>

\* the peer of an open connection stops reading; once its receive buffer and the
\* server's send buffer are full, sendall() on the blocking socket (no timeout is
\* set on accepted connections) neither returns nor raises
stall ==
    /\ \E c \in Conns :
        /\ conn[c] = "open"
        /\ conn' = [conn EXCEPT ![c] = "stalled"]
    /\ UNCHANGED <<gen, codec, portFree, started, running, serverSocket, clients, dataQueue, lock, pc,
                   acc, cur, snap, threadExc, backlog, sent, stopPc, nextId, histVars>>

\* ------------------------------------------------- the loop thread: run()
\* line 405-406: create the socket
run_socket ==
    /\ pc = "socket"
    /\ serverSocket' = "created"
    /\ pc' = "bind"
    /\ UNCHANGED <<gen, codec, portFree, started, running, clients, dataQueue, lock, acc, cur, snap,
                   threadExc, backlog, conn, sent, stopPc, nextId, histVars>>

\* lines 407-409: bind, listen, settimeout. bind raises when the port is taken (or
\* the socket was closed by stop() meanwhile); the exception leaves run() through
\* its finally clause.
run_bind ==
    /\ pc = "bind"
    /\ IF serverSocket = "created" /\ portFree
       THEN /\ serverSocket' = "listening"
            /\ pc' = "while"
            /\ UNCHANGED threadExc
       ELSE /\ threadExc' = TRUE
            /\ pc' = "cleanup"
            /\ UNCHANGED serverSocket
    /\ UNCHANGED <<gen, codec, portFree, started, running, clients, dataQueue, lock, acc, cur, snap,
                   backlog, conn, sent, stopPc, nextId, histVars>>

\* line 411: while self._running
run_while ==
    /\ pc = "while"
    /\ pc' = IF running THEN "accept" ELSE "cleanup"
    /\ UNCHANGED <<gen, codec, portFree, started, running, serverSocket, clients, dataQueue, lock, acc,
                   cur, snap, threadExc, backlog, conn, sent, stopPc, nextId, histVars>>

\* line 415: accept() with the 1 s timeout
run_accept ==
    /\ pc = "accept"
    /\ \/ /\ serverSocket = "listening"          \* a connection is returned
          /\ backlog # <<>>
          /\ acc' = Head(backlog)
          /\ backlog' = Tail(backlog)
          /\ conn' = [conn EXCEPT ![Head(backlog)] = "open"]
          /\ pc' = "append"
       \/ /\ serverSocket = "listening"          \* socket.timeout: pass (418-419)
          /\ backlog = <<>>
          /\ pc' = "empty"
          /\ UNCHANGED <<acc, backlog, conn>>
       \/ /\ serverSocket # "listening"          \* closed by stop(): OSError, caught at 426
          /\ pc' = "while"
          /\ UNCHANGED <<acc, backlog, conn>>
    /\ UNCHANGED <<gen, codec, portFree, started, running, serverSocket, clients, dataQueue, lock, cur,
                   snap, threadExc, sent, stopPc, nextId, histVars>>

\* lines 416-417: with self._lock: self._clients.append(conn)
run_append ==
    /\ pc = "append"
    /\ lock = "free"
    /\ clients' = Append(clients, acc)
    /\ acc' = 0
    /\ pc' = "empty"
    /\ UNCHANGED <<gen, codec, portFree, started, running, serverSocket, dataQueue, lock, cur, snap,
                   threadExc, backlog, conn, sent, stopPc, nextId, histVars>>

\* line 422: while not self._data_queue.empty()
run_empty ==
    /\ pc = "empty"
    /\ pc' = IF dataQueue = <<>> THEN "while" ELSE "get"
    /\ UNCHANGED <<gen, codec, portFree, started, running, serverSocket, clients, dataQueue, lock, acc,
                   cur, snap, threadExc, backlog, conn, sent, stopPc, nextId, histVars>>

\* line 423: rmc, gga = self._data_queue.get()
run_get ==
    /\ pc = "get"
    /\ dataQueue # <<>>
    /\ cur' = queue_pop(dataQueue)[1]
    /\ dataQueue' = queue_pop(dataQueue)[2]
    /\ deqLog' = Log(deqLog, PairId(cur'), PairId(cur'))
    /\ setAtDeq' = [setAtDeq EXCEPT ![PairId(cur')] = Range(clients)]
    /\ pc' = "broadcast"
    /\ UNCHANGED <<gen, codec, portFree, started, running, serverSocket, clients, lock, acc, snap,
                   threadExc, backlog, conn, sent, stopPc, nextId, setAtLock, failed,
                   bcastDone>>

\* lines 374-375: with self._lock: for conn in self._clients[:]
broadcast_lock ==
    /\ pc = "broadcast"
    /\ lock = "free"
    /\ lock' = "loop"
    /\ snap' = clients_copy(clients)
    /\ setAtLock' = [setAtLock EXCEPT ![PairId(cur)] = Range(clients)]
    /\ pc' = IF snap' = <<>> THEN "unlock" ELSE "first"
    /\ UNCHANGED <<gen, codec, portFree, started, running, serverSocket, clients, dataQueue, acc, cur,
                   threadExc, backlog, conn, sent, stopPc, nextId, deqLog, setAtDeq,
                   failed, bcastDone>>

\* lines 379-384: a sendall() raised: close the connection, remove it from the list,
\* and go on with the next connection of the copy
send_failed ==
    /\ conn' = [conn EXCEPT ![Head(snap)] = "closed"]
    /\ clients' = drop_client(clients, Head(snap))
    /\ failed' = failed \cup {<<Head(snap), PairId(cur)>>}
    /\ snap' = Tail(snap)
    /\ pc' = IF Tail(snap) = <<>> THEN "unlock" ELSE "first"
    /\ UNCHANGED sent

\* line 377: conn.sendall(rmc.encode('ascii')), the first write to the connection
broadcast_first ==
    /\ pc = "first"
    /\ conn[Head(snap)] # "stalled"
    /\ \/ /\ sent' = [sent EXCEPT ![Head(snap)] =
                        Log(@, bcast_order(cur[1], cur[2])[1], PairId(cur))]
          /\ pc' = "second"
          /\ UNCHANGED <<conn, clients, failed, snap>>
       \/ send_failed
    /\ UNCHANGED <<gen, codec, portFree, started, running, serverSocket, dataQueue, lock, acc, cur,
                   threadExc, backlog, stopPc, nextId, deqLog, setAtDeq, setAtLock,
                   bcastDone>>

\* line 378: conn.sendall(gga.encode('ascii')), the second write to the connection
broadcast_second ==
    /\ pc = "second"
    /\ conn[Head(snap)] # "stalled"
    /\ \/ /\ sent' = [sent EXCEPT ![Head(snap)] =
                        Log(@, bcast_order(cur[1], cur[2])[2], PairId(cur))]
          /\ snap' = Tail(snap)
          /\ pc' = IF Tail(snap) = <<>> THEN "unlock" ELSE "first"
          /\ UNCHANGED <<conn, clients, failed>>
       \/ send_failed
    /\ UNCHANGED <<gen, codec, portFree, started, running, serverSocket, dataQueue, lock, acc, cur,
                   threadExc, backlog, stopPc, nextId, deqLog, setAtDeq, setAtLock,
                   bcastDone>>

\* end of the with block of _broadcast: the lock is released, _broadcast returns
broadcast_unlock ==
    /\ pc = "unlock"
    /\ lock' = "free"
    /\ bcastDone' = bcastDone \cup {PairId(cur)}
    /\ cur' = <<>>
    /\ pc' = "empty"
    /\ UNCHANGED <<gen, codec, portFree, started, running, serverSocket, clients, dataQueue, acc, snap,
                   threadExc, backlog, conn, sent, stopPc, nextId, deqLog, setAtDeq,
                   setAtLock, failed>>

\* finally: _cleanup(), lines 388-394
run_cleanup_clients ==
    /\ pc = "cleanup"
    /\ lock = "free"
    /\ conn' = close_all(conn, clients)
    /\ clients' = <<>>
    /\ pc' = "cleanup_socket"
    /\ UNCHANGED <<gen, codec, portFree, started, running, serverSocket, dataQueue, lock, acc, cur,
                   snap, threadExc, backlog, sent, stopPc, nextId, histVars>>

\* finally: _cleanup(), lines 396-400; run() returns and the thread ends
run_cleanup_socket ==
    /\ pc = "cleanup_socket"
    /\ serverSocket' = close_socket(serverSocket)
    /\ pc' = "done"
    /\ UNCHANGED <<gen, codec, portFree, started, running, clients, dataQueue, lock, acc, cur, snap,
                   threadExc, backlog, conn, sent, stopPc, nextId, histVars>>

LoopThread ==
    \/ run_socket \/ run_bind \/ run_while \/ run_accept \/ run_append
    \/ run_empty \/ run_get
    \/ broadcast_lock \/ broadcast_first \/ broadcast_second \/ broadcast_unlock
    \/ run_cleanup_clients \/ run_cleanup_socket

Callers ==
    \/ start
    \/ connect
    \/ \E s \in Stoppers : stop_running(s)
    \/ \E s \in Stoppers : stop_cleanup_clients(s)
    \/ \E s \in Stoppers : stop_cleanup_socket(s)

\* ------------------------------------------------------------ generators
\* A route file: missing, not a JSON object with 'features' (GeoJSON only), or a
\* list of rows (CSV rows, GeoJSON features, NMEA lines). A row is
\*   k    "ok"   a usable row: a data row, a Point feature, a decodable sentence
\*        "skip" an empty or comment row, a feature that is no Point, a line
\*               decode() raises on
\*        "bad"  a row with fewer than 5 columns or an unparsable number, a
\*               feature without geometry, a line decode() raises on
\*   num  the point number the file itself gives (CSV column 0)
\*   dur  the duration the file gives (CSV column 5, GeoJSON properties)
\*   t    the time the sentence carries (NMEA)
Rows ==
    { [k |-> "ok", num |-> 1, dur |-> 0, t |-> 1],
      [k |-> "ok", num |-> 7, dur |-> 2, t |-> 1],
      [k |-> "skip", num |-> 0, dur |-> 0, t |-> 0],
      [k |-> "bad", num |-> 0, dur |-> 0, t |-> 0] }

RowLists == UNION {[1..m -> Rows] : m \in 0..MaxRows}

Files(kind) ==
    {[state |-> "missing", rows |-> <<>>]}
    \cup (IF kind = "geojson" THEN {[state |-> "notjson", rows |-> <<>>]} ELSE {})
    \cup {[state |-> "rows", rows |-> r] : r \in RowLists}

\* A construction argument: "duration=<v>", "index=<v>" (v parses as a number or
\* does not), or anything else: the path of the route file (PathArg) or another
\* string that names no file (ExtraArg).
DurArg(v) == [key |-> "duration", ok |-> TRUE, v |-> v]
IdxArg(v) == [key |-> "index", ok |-> TRUE, v |-> v]
BadDur == [key |-> "duration", ok |-> FALSE, v |-> 0]
BadIdx == [key |-> "index", ok |-> FALSE, v |-> 0]
PathArg == [key |-> "path", ok |-> TRUE, v |-> 0]
ExtraArg == [key |-> "extra", ok |-> TRUE, v |-> 0]

ArgLists ==
    { <<>>, <<PathArg>>,
      <<PathArg, DurArg(5)>>, <<PathArg, IdxArg(0)>>, <<PathArg, IdxArg(100)>>,
      <<DurArg(5), IdxArg(100), PathArg>>, <<IdxArg(0), PathArg, IdxArg(100)>>,
      <<PathArg, BadIdx>>, <<BadDur, PathArg>>,
      <<ExtraArg, IdxArg(0), PathArg>>, <<PathArg, DurArg(5), ExtraArg>>,
      <<PathArg, IdxArg(100), BadDur>> }

\* Optional values: <<>> is None, <<v>> is the value v.
None == <<>>
Some(v) == <<v>>

\* FileGenerator._parse_common_params: the overrides and the remaining arguments,
\* or the ValueError of an override that does not parse
RECURSIVE parse_common_params_lenient(_, _)
parse_common_params_lenient(args, st) ==
    IF args = <<>> THEN st
    ELSE LET a == Head(args) IN
         IF a.key = "duration"
         THEN parse_common_params_lenient(Tail(args),
                  IF a.ok THEN [st EXCEPT !.dur = Some(a.v)] ELSE st)
         ELSE IF a.key = "index"
         THEN parse_common_params_lenient(Tail(args),
                  IF a.ok THEN [st EXCEPT !.idx = Some(a.v)] ELSE st)
         ELSE parse_common_params_lenient(Tail(args), [st EXCEPT !.rest = Append(@, a)])
RECURSIVE parse_common_params(_, _)
parse_common_params(args, st) ==
    IF args = <<>> THEN st
    ELSE LET a == Head(args) IN
         IF a.key = "duration"
         THEN IF a.ok
              THEN parse_common_params(Tail(args), [st EXCEPT !.dur = Some(a.v)])
              ELSE [st EXCEPT !.ok = FALSE]
         ELSE IF a.key = "index"
         THEN IF a.ok
              THEN parse_common_params(Tail(args), [st EXCEPT !.idx = Some(a.v)])
              ELSE [st EXCEPT !.ok = FALSE]
         ELSE parse_common_params(Tail(args), [st EXCEPT !.rest = Append(@, a)])

NoParams == [ok |-> TRUE, dur |-> None, idx |-> None, rest |-> <<>>]

\* line 340: position.index = self._index_override + (original_index - 1)
override_index_off_by_one(start_index, original_index) == start_index + original_index
override_index(start_index, original_index) == start_index + (original_index - 1)

\* FileGenerator._apply_common_params
apply_common_params_keep_duration(position, original_index, dur, idx) ==
    [position EXCEPT
        !.index = IF idx # None THEN override_index(idx[1], original_index) ELSE @]
apply_common_params(position, original_index, dur, idx) ==
    [position EXCEPT
        !.duration = IF dur # None THEN dur[1] ELSE @,
        !.index = IF idx # None THEN override_index(idx[1], original_index) ELSE @]

\* The Position a loader builds from row number i of the file, with the loader's
\* running index: CSV and GeoJSON put the placeholder time (1970, here 0) and the
\* row's duration; the NMEA loader keeps the decoded time and sets duration 1.0.
\* `row` stands for the row's own data (lat, lon, speed, elevation, ...).
loaded_position(kind, r, i, index) ==
    IF kind = "nmea"
    THEN [index |-> index, row |-> i, time |-> r.t, duration |-> 1]
    ELSE [index |-> index, row |-> i, time |-> 0, duration |-> r.dur]

\* what a loader does with a row: "take", "skip" or "raise"
row_action_strict(kind, r) ==
    IF r.k = "ok" THEN "take" ELSE IF r.k = "skip" THEN "skip" ELSE "raise"
row_action(kind, r) ==
    IF kind = "nmea"
    THEN IF r.k = "ok" THEN "take" ELSE "skip"      \* except Exception: continue
    ELSE IF r.k = "ok" THEN "take"
    ELSE IF r.k = "skip" THEN "skip"                \* continue
    ELSE "raise"

\* the loop of _load_file over the rows from row i on, with the running index
RECURSIVE load_rows(_, _, _, _, _, _)
load_rows(kind, rows, i, index, out, par) ==
    IF i > Len(rows) THEN [ok |-> TRUE, positions |-> out]
    ELSE IF row_action(kind, rows[i]) = "raise" THEN [ok |-> FALSE, positions |-> <<>>]
    ELSE IF row_action(kind, rows[i]) = "skip"
         THEN load_rows(kind, rows, i + 1, index, out, par)
    ELSE load_rows(kind, rows, i + 1, index + 1,
                   Append(out, apply_common_params(
                                   loaded_position(kind, rows[i], i, index),
                                   index, par.dur, par.idx)),
                   par)

\* _load_file of the three generators: the loaded list, or the failure
load_file(kind, file, par) ==
    IF file.state # "rows" THEN [ok |-> FALSE, positions |-> <<>>]
    ELSE LET l == load_rows(kind, file.rows, 1, 1, <<>>, par) IN
         IF kind # "nmea" /\ l.ok /\ l.positions = <<>>
         THEN [ok |-> FALSE, positions |-> <<>>]    \* "No valid points found"
         ELSE l

\* line 356: self._index += 1
advance_stuck(i) == i
advance(i) == i + 1

GenKinds == {"csv", "geojson", "nmea"}

GenIdle ==
    [kind |-> "csv", args |-> <<>>, file |-> [state |-> "missing", rows |-> <<>>],
     state |-> "off", positions |-> <<>>, index |-> 0, dur |-> None, idx |-> None,
     rest |-> <<>>, pulls |-> <<>>, now |-> 2]

GenInit ==
    \E kind \in GenKinds : \E file \in Files(kind) : \E args \in ArgLists :
        gen = [GenIdle EXCEPT !.kind = kind, !.file = file, !.args = args,
                              !.state = "new"]

\* self._load_file(remaining_args[0]): the file the first remaining argument names
opened_file(rest, file) ==
    IF rest # <<>> /\ rest[1] = PathArg THEN file ELSE [state |-> "missing", rows |-> <<>>]

\* CSVGenerator / GeoJSONGenerator / NMEAGenerator.__init__(*args)
construct ==
    /\ gen.state = "new"
    /\ LET par == parse_common_params(gen.args, NoParams)
           l == load_file(gen.kind, opened_file(par.rest, gen.file), par)
       IN IF par.ok /\ par.rest # <<>> /\ l.ok
          THEN gen' = [gen EXCEPT !.state = "ready", !.positions = l.positions,
                                  !.dur = par.dur, !.idx = par.idx,
                                  !.rest = par.rest]
          ELSE gen' = [gen EXCEPT !.state = "failed"]
    /\ UNCHANGED <<srvVars, codec>>

MaxPulls == MaxRows + 2

\* _update_position of the generator: CSVGenerator and GeoJSONGenerator override it
\* and set position.time = datetime.now(timezone.utc); NMEAGenerator does not
\* override it and returns the Position as loaded (FileGenerator._update_position)
stamp_time(kind, p, t) == IF kind = "nmea" THEN p ELSE [p EXCEPT !.time = t]

\* LodeGenerator.__next__ -> _update_position: the next Position with its time
\* set to now (CSV, GeoJSON; the NMEA generator inherits FileGenerator's), or
\* StopIteration (<<>>)
next ==
    /\ gen.state = "ready"
    /\ Len(gen.pulls) < MaxPulls
    /\ IF gen.index >= Len(gen.positions)
       THEN gen' = [gen EXCEPT !.pulls = Append(@, None), !.now = @ + 1]
       ELSE LET p == gen.positions[gen.index + 1]
                q == stamp_time(gen.kind, p, gen.now)
            IN gen' = [gen EXCEPT !.positions[gen.index + 1] = q,
                                  !.index = advance(@),
                                  !.pulls = Append(@, Some(q)),
                                  !.now = @ + 1]
    /\ UNCHANGED <<srvVars, codec>>

\* ----------------------------------------------------------------- codec
\* Text is a sequence of characters, each a one-character string ("CR" and "LF"
\* stand for carriage return and line feed).
\* the characters of codes 32..95, in code order
Printable ==
    <<" ", "!", "\"", "#", "$", "%", "&", "'", "(", ")", "*", "+", ",", "-", ".", "/",
      "0", "1", "2", "3", "4", "5", "6", "7", "8", "9", ":", ";", "<", "=", ">", "?",
      "@", "A", "B", "C", "D", "E", "F", "G", "H", "I", "J", "K", "L", "M", "N", "O",
      "P", "Q", "R", "S", "T", "U", "V", "W", "X", "Y", "Z", "[", "\\", "]", "^", "_">>

\* ord(char)
OrdTable ==
    [c \in Range(Printable) \cup {"CR", "LF"} |->
        IF c = "CR" THEN 13 ELSE IF c = "LF" THEN 10
        ELSE 31 + CHOOSE i \in 1..Len(Printable) : Printable[i] = c]
Ord(c) == OrdTable[c]

DigitChars == <<"0", "1", "2", "3", "4", "5", "6", "7", "8", "9">>
HexChars == DigitChars \o <<"A", "B", "C", "D", "E", "F">>
DigitSet == Range(DigitChars)
IsDigit(c) == c \in DigitSet
DigitTable == [c \in DigitSet |-> (CHOOSE i \in 1..10 : DigitChars[i] = c) - 1]
DigitVal(c) == DigitTable[c]

Abs(n) == IF n < 0 THEN -n ELSE n
Min(a, b) == IF a < b THEN a ELSE b
Max(a, b) == IF a > b THEN a ELSE b

\* str(n) for n >= 0
RECURSIVE dec(_)
dec(n) == IF n < 10 THEN <<DigitChars[n + 1]>>
          ELSE Append(dec(n \div 10), DigitChars[(n % 10) + 1])

\* zero padding of the format specs 02d, 03d, 09.6f, and of strftime
RECURSIVE zero_pad(_, _)
zero_pad(s, width) == IF Len(s) >= width THEN s ELSE zero_pad(<<"0">> \o s, width)

\* Python slices s[:n] and s[n:], n possibly negative or beyond the end
slice_to(s, n) ==
    IF n >= 0 THEN SubSeq(s, 1, Min(n, Len(s))) ELSE SubSeq(s, 1, Max(Len(s) + n, 0))
slice_from(s, n) ==
    IF n >= 0 THEN SubSeq(s, Min(n, Len(s)) + 1, Len(s))
    ELSE SubSeq(s, Max(Len(s) + n, 0) + 1, Len(s))

\* s[a:b] for 0 <= a <= b
slice(s, a, b) == slice_to(slice_from(s, a), b - a)

\* s.find(c): the 0-based place of the first c, -1 if there is none
find(s, c) ==
    LET at == {i \in 1..Len(s) : s[i] = c} IN
    IF at = {} THEN -1 ELSE (CHOOSE i \in at : \A j \in at : i <= j) - 1

\* Numbers. A coordinate (a float of degrees) is [neg, deg, frac]: sign, whole
\* degrees, and the rest in units of 1e-7 minute, one decimal finer than the six
\* decimals of minutes a sentence carries. A number read from text is
\* [neg, int, micro]: sign, integer part and the first six decimals.
Micro == 1000000                \* six decimals (format spec 09.6f)
FracPerMinute == 10 * Micro
FracPerDegree == 60 * FracPerMinute

IsNonNeg(x) == ~x.neg \/ (x.deg = 0 /\ x.frac = 0)      \* x >= 0 (true of -0.0)

\* rounding of x / 10 to an integer as float formatting does it; an exact tie does
\* not exist in binary floating point, it falls to the side `tie` (0 or 1)
round_tenth(x, tie) ==
    IF x % 10 < 5 THEN x \div 10
    ELSE IF x % 10 > 5 THEN x \div 10 + 1
    ELSE x \div 10 + tie

\* f"{m:09.6f}" for m given in 1e-6
fixed6(m) == zero_pad(dec(m \div Micro) \o <<".">> \o zero_pad(dec(m % Micro), 6), 9)

\* f"{x:.1f}" for x given in tenths
fixed1(t) == (IF t < 0 THEN <<"-">> ELSE <<>>) \o dec(Abs(t) \div 10) \o <<".">> \o dec(Abs(t) % 10)

\* lat_dir = 'N' if lat >= 0 else 'S' (lines 69, 74)
hemisphere_of_degrees(x, pos, neg) == IF (IF x.neg THEN -x.deg ELSE x.deg) >= 0 THEN pos ELSE neg
hemisphere(x, pos, neg) == IF IsNonNeg(x) THEN pos ELSE neg

\* one coordinate of format_coords: int(x), abs((x - int(x)) * 60), the string
coord_str(x, deg_width, tie) ==
    LET x_deg == IF x.neg THEN -x.deg ELSE x.deg           \* int(x) truncates
        x_min == Abs(IF x.neg THEN -x.frac ELSE x.frac)     \* in 1e-7 minute
    IN zero_pad(dec(Abs(x_deg)), deg_width) \o fixed6(round_tenth(x_min, tie))

\* NMEAEncoder.format_coords
format_coords(lat, lon, tie_lat, tie_lon) ==
    <<coord_str(lat, 2, tie_lat), hemisphere(lat, <<"N">>, <<"S">>),
      coord_str(lon, 3, tie_lon), hemisphere(lon, <<"E">>, <<"W">>)>>

\* NMEAEncoder.calculate_checksum: checksum ^= ord(char) over the characters (bit
\* k of the result is the parity of the bits k of the characters), as f"{:02X}"
parity(codes, k) ==
    Cardinality({i \in 1..Len(codes) : (codes[i] \div (2 ^ k)) % 2 = 1}) % 2
xor_all(s) ==
    LET codes == [i \in 1..Len(s) |-> Ord(s[i])] IN
    parity(codes, 0) + 2 * parity(codes, 1) + 4 * parity(codes, 2) + 8 * parity(codes, 3)
    + 16 * parity(codes, 4) + 32 * parity(codes, 5) + 64 * parity(codes, 6)
calculate_checksum_from_dollar(s) ==
    LET checksum == xor_all(<<"$">> \o s) IN
    <<HexChars[(checksum \div 16) + 1], HexChars[(checksum % 16) + 1]>>
calculate_checksum(s) ==
    LET checksum == xor_all(s) IN
    <<HexChars[(checksum \div 16) + 1], HexChars[(checksum % 16) + 1]>>

\* ",".join(fields)
RECURSIVE join(_)
join(fields) ==
    IF fields = <<>> THEN <<>>
    ELSE IF Len(fields) = 1 THEN fields[1]
    ELSE fields[1] \o <<",">> \o join(Tail(fields))

\* f"${body}*{checksum}\r\n"
frame(body) == <<"$">> \o body \o <<"*">> \o calculate_checksum(body) \o <<"CR", "LF">>

GPGGA == <<"G", "P", "G", "G", "A">>
GNGGA == <<"G", "N", "G", "G", "A">>
GGA == <<"G", "G", "A">>
GPRMC == <<"G", "P", "R", "M", "C">>
GNRMC == <<"G", "N", "R", "M", "C">>
RMC == <<"R", "M", "C">>

\* data.time.strftime("%H%M%S.%f")[:-3] and strftime("%d%m%y")
time_str(t) ==
    zero_pad(dec(t.hour), 2) \o zero_pad(dec(t.minute), 2) \o zero_pad(dec(t.second), 2)
    \o <<".">> \o zero_pad(dec(t.milli), 3)
date_str(t) ==
    zero_pad(dec(t.day), 2) \o zero_pad(dec(t.month), 2) \o zero_pad(dec(t.year % 100), 2)

\* NMEAEncoder.encode_gga; elevation is given in tenths of a metre
encode_gga(data, tie_lat, tie_lon) ==
    LET c == format_coords(data.lat, data.lon, tie_lat, tie_lon) IN
    frame(join(<<GPGGA, time_str(data.time), c[1], c[2], c[3], c[4],
                 <<"1">>, <<"0", "8">>, <<"1", ".", "0">>, fixed1(data.elevation),
                 <<"M">>, <<"0", ".", "0">>, <<"M">>, <<>>, <<>> >>))

\* speed_knots = data.speed * 0.539957, formatted .1f; speed in whole km/h
knots_tenths(speed) == (speed * 539957 * 10 + (Micro \div 2)) \div Micro

\* NMEAEncoder.encode_rmc
encode_rmc(data, tie_lat, tie_lon) ==
    LET c == format_coords(data.lat, data.lon, tie_lat, tie_lon) IN
    frame(join(<<GPRMC, time_str(data.time), <<"A">>, c[1], c[2], c[3], c[4],
                 fixed1(knots_tenths(data.speed)), <<"0", ".", "0">>,
                 date_str(data.time), <<>>, <<>>, <<"A">> >>))

\* str.strip(): leading and trailing whitespace removed
Whitespace == {" ", "CR", "LF"}
RECURSIVE lstrip(_)
lstrip(s) == IF s # <<>> /\ Head(s) \in Whitespace THEN lstrip(Tail(s)) ELSE s
RECURSIVE rstrip(_)
rstrip(s) ==
    IF s # <<>> /\ s[Len(s)] \in Whitespace THEN rstrip(SubSeq(s, 1, Len(s) - 1)) ELSE s
strip(s) == rstrip(lstrip(s))

\* str.split(sep): the fields between the separators (one more than separators)
RECURSIVE split(_, _)
split(s, sep) ==
    LET at == find(s, sep) IN
    IF at < 0 THEN <<s>>
    ELSE <<slice_to(s, at)>> \o split(slice_from(s, at + 1), sep)

\* int(s) for a string of decimal digits; anything else raises ValueError
RECURSIVE digits_val(_)
digits_val(s) ==
    IF s = <<>> THEN 0 ELSE 10 * digits_val(SubSeq(s, 1, Len(s) - 1)) + DigitVal(s[Len(s)])
AllDigits(s) == \A i \in 1..Len(s) : IsDigit(s[i])
parse_int(s) ==
    IF s # <<>> /\ AllDigits(s) THEN [ok |-> TRUE, v |-> digits_val(s)]
    ELSE [ok |-> FALSE, v |-> 0]

\* float(s) for [-]digits[.digits] with at least one digit; anything else raises
\* ValueError. The value is [neg, int, micro], decimals beyond the sixth dropped.
parse_float(s) ==
    LET neg == s # <<>> /\ Head(s) = "-"
        u == IF neg THEN Tail(s) ELSE s
        dot == find(u, ".")
        ip == IF dot < 0 THEN u ELSE slice_to(u, dot)
        fp == IF dot < 0 THEN <<>> ELSE slice_from(u, dot + 1)
        fp6 == SubSeq(fp \o <<"0", "0", "0", "0", "0", "0">>, 1, 6)
    IN IF AllDigits(ip) /\ AllDigits(fp) /\ ip \o fp # <<>>
       THEN [ok |-> TRUE, neg |-> neg, int |-> digits_val(ip), micro |-> digits_val(fp6)]
       ELSE [ok |-> FALSE, neg |-> FALSE, int |-> 0, micro |-> 0]

\* a decoded coordinate deg + min_val / 60: [ok, neg, deg, mm] with the minutes mm
\* in 1e-6 minute (signed); ok = FALSE is the ValueError of int() or float()
Coord0 == [ok |-> TRUE, neg |-> FALSE, deg |-> 0, mm |-> 0]
CoordError == [ok |-> FALSE, neg |-> FALSE, deg |-> 0, mm |-> 0]

deg_plus_min(d, m) ==
    IF d.ok /\ m.ok
    THEN [ok |-> TRUE, neg |-> FALSE, deg |-> d.v,
          mm |-> (IF m.neg THEN -1 ELSE 1) * (m.int * Micro + m.micro)]
    ELSE CoordError

\* where the degrees end: dot_pos - 2 when the point is at place 4 or later (lines
\* 187-190), else min(max_degrees_digits, len - 2) (lines 193, 198)
degrees_end(s, max_degrees_digits) ==
    IF find(s, ".") >= 4 THEN find(s, ".") - 2
    ELSE IF find(s, ".") >= 0 THEN Min(max_degrees_digits, Len(s) - 2)
    ELSE IF Len(s) > 2 THEN Min(max_degrees_digits, Len(s) - 2)
    ELSE max_degrees_digits

\* NMEADecoder._parse_coordinate
parse_coordinate(s, max_degrees_digits) ==
    IF s = <<>> THEN Coord0
    ELSE LET e == degrees_end(s, max_degrees_digits) IN
         IF find(s, ".") >= 0 \/ Len(s) > e
         THEN deg_plus_min(parse_int(slice_to(s, e)), parse_float(slice_from(s, e)))
         ELSE deg_plus_min(parse_int(slice_to(s, e)),
                           [ok |-> TRUE, neg |-> FALSE, int |-> 0, micro |-> 0])

\* NMEADecoder._parse_lat / _parse_lon: the sign from the hemisphere letter
parse_hemi(s, dir, max_degrees_digits, negative) ==
    IF s = <<>> \/ dir = <<>> THEN Coord0
    ELSE LET x == parse_coordinate(s, max_degrees_digits) IN
         IF dir = negative THEN [x EXCEPT !.neg = ~x.neg] ELSE x
parse_lat(s, ns) == parse_hemi(s, ns, 2, <<"S">>)
parse_lon(s, ew) == parse_hemi(s, ew, 3, <<"W">>)

\* the current date, which _parse_datetime gives a GGA time
Today == [day |-> 4, month |-> 11, year |-> 2026]

DaysIn(month, year) ==
    IF month = 2 THEN (IF year % 4 = 0 THEN 29 ELSE 28)
    ELSE IF month \in {4, 6, 9, 11} THEN 30 ELSE 31

\* NMEADecoder._parse_datetime: <<>> is None (empty time, or any exception).
\* micro is the fraction of the second as written (the float product
\* int(float('0.' + f) * 1e6) can fall one microsecond short of it).
parse_datetime(t, d) ==
    LET hour == parse_int(slice(t, 0, 2))
        minute == parse_int(slice(t, 2, 4))
        second == parse_int(slice(t, 4, 6))
        parts == split(t, ".")
        frac == IF Len(parts) > 1 THEN parse_float(<<"0", ".">> \o parts[2])
                ELSE [ok |-> TRUE, neg |-> FALSE, int |-> 0, micro |-> 0]
        day == parse_int(slice(d, 0, 2))
        month == parse_int(slice(d, 2, 4))
        year == parse_int(slice(d, 4, 6))
        clock_ok == /\ hour.ok /\ minute.ok /\ second.ok /\ frac.ok
                    /\ hour.v < 24 /\ minute.v < 60 /\ second.v < 60
    IN IF t = <<>> \/ ~clock_ok THEN None
       ELSE IF d = <<>>
       THEN Some([hour |-> hour.v, minute |-> minute.v, second |-> second.v,
                  micro |-> frac.micro, day |-> Today.day, month |-> Today.month,
                  year |-> Today.year])
       ELSE IF /\ day.ok /\ month.ok /\ year.ok
               /\ month.v \in 1..12
               /\ day.v \in 1..DaysIn(month.v, 2000 + year.v)
       THEN Some([hour |-> hour.v, minute |-> minute.v, second |-> second.v,
                  micro |-> frac.micro, day |-> day.v, month |-> month.v,
                  year |-> 2000 + year.v])
       ELSE None

\* the outcome of decode: a Position, or the ValueError
Raised == [ok |-> FALSE, pos |-> <<>>]
Returned(lat, lon, speed, elevation, dt) ==
    [ok |-> TRUE,
     pos |-> [index |-> 0, lat |-> lat, lon |-> lon, speed |-> speed,
              elevation |-> elevation, time |-> dt]]

\* float(knots) * 1.852, in thousandths of a km/h
knots_to_kmh(k) == ((k.int * 1000 + k.micro \div 1000) * 1852) \div 1000

\* float(fields[9]) of GGA, in tenths of a metre
tenths(x) == (IF x.neg THEN -1 ELSE 1) * (x.int * 10 + x.micro \div (Micro \div 10))

Zero == [ok |-> TRUE, neg |-> FALSE, int |-> 0, micro |-> 0]

decode_rmc(fields) ==
    IF Len(fields) < 10 \/ fields[3] # <<"A">> THEN Raised
    ELSE LET lat == parse_lat(fields[4], fields[5])
             lon == parse_lon(fields[6], fields[7])
             speed == IF fields[8] # <<>> THEN parse_float(fields[8]) ELSE Zero
             dt == parse_datetime(fields[2], fields[10])
         IN IF lat.ok /\ lon.ok /\ speed.ok /\ dt # None
            THEN Returned(lat, lon, knots_to_kmh(speed), 0, dt[1])
            ELSE Raised

decode_gga(fields) ==
    IF Len(fields) < 10 THEN Raised
    ELSE LET lat == parse_lat(fields[3], fields[4])
             lon == parse_lon(fields[5], fields[6])
             elevation == IF fields[10] # <<>> THEN parse_float(fields[10]) ELSE Zero
             dt == parse_datetime(fields[2], <<>>)
         IN IF lat.ok /\ lon.ok /\ elevation.ok /\ dt # None
            THEN Returned(lat, lon, 0, tenths(elevation), dt[1])
            ELSE Raised

\* which sentence types decode accepts (lines 143 and 157)
accepts_any_rmc(t) == Len(t) >= 3 /\ SubSeq(t, Len(t) - 2, Len(t)) = RMC
accepts_rmc(t) == t \in {GPRMC, RMC, GNRMC}
accepts_gga(t) == t \in {GPGGA, GGA, GNGGA}

\* NMEADecoder.decode
decode(nmea) ==
    IF nmea = <<>> \/ Head(nmea) # "$" THEN Raised
    ELSE LET s == strip(nmea)
             star == find(s, "*")
             body == IF star >= 0 THEN slice_to(s, star) ELSE s
             fields == split(slice_from(body, 1), ",")
         IN IF accepts_rmc(fields[1]) THEN decode_rmc(fields)
            ELSE IF accepts_gga(fields[1]) THEN decode_gga(fields)
            ELSE Raised

\* ---- inputs of the codec
\* coordinates to encode: at and next to whole degrees, half a degree, the last
\* 1e-7 minutes below the next degree (minutes that format as 60.000000)
Fractions == {0, 4, 5, 300000000, 599999994, 599999995, 599999999}
Coordinates(degs, top) ==
    {[neg |-> n, deg |-> d, frac |-> f] : n \in BOOLEAN, d \in degs, f \in Fractions}
    \cup {[neg |-> n, deg |-> top, frac |-> 0] : n \in BOOLEAN}
Latitudes == Coordinates({0, 59, 89}, 90)
Longitudes == Coordinates({0, 9, 179}, 180)

FixTime == [hour |-> 7, minute |-> 8, second |-> 9, milli |-> 120,
            day |-> 6, month |-> 5, year |-> 2024]

\* the Positions handed to the encoder (speed in km/h, elevation in 0.1 m)
Positions ==
    {[lat |-> la, lon |-> lo, speed |-> sp, elevation |-> 1234, time |-> FixTime] :
        la \in Latitudes, lo \in Longitudes, sp \in {0, 36}}

\* lines handed to decode: a prefix, a type, the fields in the order of an RMC or
\* of a GGA sentence cut to n fields, a validity flag, a time, a date, and the
\* checksum tail or none
GoodTime == <<"1", "2", "0", "0", "0", "0", ".", "0", "0", "0">>
Times == {GoodTime, <<>>, <<"1", "2", "X", "0", "0", "0">>,
          <<"2", "4", "0", "0", "0", "0">>, <<"1", "2", "0", "0">>}
Dates == {<<"0", "1", "0", "1", "2", "0">>, <<>>, <<"3", "1", "0", "2", "2", "0">>}
Types == {GPRMC, GNRMC, RMC, GPGGA, GNGGA, GGA,
          <<"G", "P", "X", "X", "X">>, <<"G", "L", "R", "M", "C">>, <<>>}
Leads == {<<"$">>, <<>>, <<" ", "$">>}
FieldCounts == {1, 9, 10, 15}

LineShapes ==
    [lead : Leads, type : Types, layout : {"rmc", "gga"}, n : FieldCounts,
     flag : {<<"A">>, <<"V">>}, time : Times, date : Dates, star : BOOLEAN]

SomeLat == <<"5", "9", "5", "6", ".", "0", "5", "8", "0", "0", "0">>
SomeLon == <<"0", "3", "0", "2", "0", ".", "1", "0", "6", "0", "0", "0">>

line_fields(l) ==
    LET all == IF l.layout = "rmc"
               THEN <<l.type, l.time, l.flag, SomeLat, <<"N">>, SomeLon, <<"E">>,
                      <<"5", ".", "4">>, <<"0", ".", "0">>, l.date, <<>>, <<>>, <<"A">> >>
               ELSE <<l.type, l.time, SomeLat, <<"N">>, SomeLon, <<"E">>, <<"1">>,
                      <<"0", "8">>, <<"1", ".", "0">>, <<"1", "2", ".", "3">>, <<"M">>,
                      <<"0", ".", "0">>, <<"M">>, <<>>, <<>> >>
    IN SubSeq(all, 1, Min(l.n, Len(all)))

line_text(l) ==
    l.lead \o (IF l.star THEN Tail(frame(join(line_fields(l)))) ELSE join(line_fields(l)))

\* ---- the codec at work
CodecIdle == [state |-> "off", pos |-> <<>>, shape |-> <<>>, lines |-> <<>>,
              results |-> <<>>]

CodecInit ==
    \/ \E p \in Positions : codec = [CodecIdle EXCEPT !.state = "position", !.pos = Some(p)]
    \/ \E l \in LineShapes :
          codec = [CodecIdle EXCEPT !.state = "lines", !.shape = Some(l),
                                    !.lines = <<line_text(l)>>]

\* encode_rmc(position), encode_gga(position): the pair a position is sent as
encode_position ==
    /\ codec.state = "position"
    /\ \E tie_lat, tie_lon \in {0, 1} :
          codec' = [codec EXCEPT
                       !.state = "lines",
                       !.lines = <<encode_rmc(codec.pos[1], tie_lat, tie_lon),
                                   encode_gga(codec.pos[1], tie_lat, tie_lon)>>]
    /\ UNCHANGED <<srvVars, gen>>

\* NMEADecoder.decode(line) on the next line
decode_line ==
    /\ codec.state = "lines"
    /\ Len(codec.results) < Len(codec.lines)
    /\ codec' = [codec EXCEPT
                    !.results = Append(@, decode(codec.lines[Len(codec.results) + 1]))]
    /\ UNCHANGED <<srvVars, gen>>

\* -------------------------------------------------------- specifications
Init == portFree \in BOOLEAN /\ SrvInit /\ gen = GenIdle /\ codec = CodecIdle

Next == LoopThread \/ Callers \/ add_data

Spec == Init /\ [][Next]_vars

\* producers that never run out of pairs; the scheduler runs the loop thread
\* whenever it can take a step
LiveNext == LoopThread \/ Callers \/ add_data_steady

LiveSpec == Init /\ [][LiveNext]_vars /\ WF_vars(LoopThread)

\* the server of Spec with peers that may stop reading and a fairly scheduled
\* loop thread
StallNext == LoopThread \/ Callers \/ add_data \/ stall

StallSpec == Init /\ [][StallNext]_vars /\ WF_vars(LoopThread)

GenNext == construct \/ next

GenStart == portFree = TRUE /\ SrvInit /\ GenInit /\ codec = CodecIdle

GenSpec == GenStart /\ [][GenNext]_vars

CodecNext == encode_position \/ decode_line

CodecStart == portFree = TRUE /\ SrvInit /\ gen = GenIdle /\ CodecInit

CodecSpec == CodecStart /\ [][CodecNext]_vars

\* ------------------------------------------------------ broadcast server
\* Pairs are numbered in the order add_data put them: pair n is the n-th put.

\* the sentences of pair n written to connection c, in the order written
SentOf(c, n) == SelectSeq(sent[c], LAMBDA e : e[2] = n)

\* connection c was sent both sentences of pair n, the bytes that were enqueued
HasBoth(c, n) ==
    /\ Len(SentOf(c, n)) = 2
    /\ Range(SentOf(c, n)) = {RmcOf(n), GgaOf(n)}

\* C1: pairs are dequeued and broadcast in the order they were enqueued: the n-th
\* pair get() returns is the n-th pair put, and no connection is written a
\* sentence of an earlier pair after a sentence of a later one.
C1_FifoOrder ==
    /\ \A i \in 1..Len(deqLog) : deqLog[i] = i
    /\ \A c \in Conns : \A i, j \in 1..Len(sent[c]) :
          i < j => sent[c][i][2] <= sent[c][j][2]

C1_Witness ==
    /\ Len(deqLog) >= 2
    /\ \E c \in Conns : HasBoth(c, 1) /\ HasBoth(c, 2)
    /\ \E s \in Stoppers : stopPc[s] # "idle"

\* C2 as stated: once the broadcast of a pair has returned, every connection that
\* was in the client set when the pair was dequeued, and to which no write of the
\* pair failed, has been sent both sentences of the pair.
C2_FanOutAtDequeue ==
    \A n \in bcastDone : \A c \in setAtDeq[n] :
        <<c, n>> \notin failed => HasBoth(c, n)

\* C2 amended: the same for every connection that is still in the client set when
\* _broadcast takes the lock for the pair (stop() may have closed and cleared the
\* set between get() and the lock); all of them are sent the same two sentences.
C2_FanOutAtLock ==
    \A n \in bcastDone :
        /\ setAtLock[n] \subseteq setAtDeq[n]
        /\ \A c \in setAtLock[n] : <<c, n>> \notin failed => HasBoth(c, n)
        /\ \A c, d \in setAtLock[n] :
              (HasBoth(c, n) /\ HasBoth(d, n)) => SentOf(c, n) = SentOf(d, n)

C2_Witness ==
    \E n \in bcastDone :
        /\ Cardinality(setAtLock[n]) = MaxClients
        /\ \A c \in setAtLock[n] : HasBoth(c, n)

C4_WriteFailureLocal ==
    /\ \A f \in failed :
          /\ conn[f[1]] = "closed"
          /\ f[1] \notin Range(clients)
          /\ \A e \in Range(sent[f[1]]) :
                e[2] <= f[2] /\ e # bcast_order(RmcOf(f[2]), GgaOf(f[2]))[2]
          /\ \A m \in bcastDone : m >= f[2] =>
                \A d \in setAtLock[m] : <<d, m>> \notin failed => HasBoth(d, m)
    /\ lock = "loop" =>
          Range(clients) = {c \in setAtLock[PairId(cur)] : <<c, PairId(cur)>> \notin failed}
    /\ (failed # {} /\ pc \in {"cleanup", "cleanup_socket", "done"}) => ~running

C4_Witness ==
    \E f \in failed : \E d \in Conns :
        /\ f[2] = 1
        /\ d # f[1]
        /\ bcastDone = {1, 2}
        /\ d \in setAtLock[1] /\ HasBoth(d, 1)
        /\ d \in setAtLock[2] /\ HasBoth(d, 2)
        /\ pc = "accept"

\* C5: a call of stop() that has returned finds the loop thread exited, every
\* client connection closed and the listening socket closed.
C5_StopSynchronous ==
    \A s \in Stoppers : stopPc[s] = "returned" =>
        /\ pc = "done"
        /\ \A c \in Conns : conn[c] # "open"
        /\ serverSocket \in {"none", "closed"}

\* C6: after a stop request the loop thread exits.
C6_StopCompletes == (~running) ~> (pc = "done")

\* C7: when the port cannot be bound, start() does not return normally to its
\* caller, and no client is ever accepted.
C7_BindFailureSurfaced ==
    (~portFree /\ threadExc) =>
        /\ started = "raised"
        /\ \A c \in Conns : conn[c] \in {"none", "pending"}

\* ------------------------------------------------------------ generators
\* the numbers of the usable rows of a file, in file order (a file with a "bad"
\* row yields a generator only through the NMEA loader, which skips the row)
UsableRows(rows) ==
    SelectSeq([i \in 1..Len(rows) |-> i],
              LAMBDA i : rows[i].k = "ok")

Ready == gen.state = "ready"

\* C8: of a generator holding n points, pull k yields the k-th usable row of the
\* file for k <= n, and every pull after the n-th signals StopIteration.
C8_ExhaustionStable ==
    Ready =>
        LET u == UsableRows(gen.file.rows) IN
        /\ Len(gen.positions) = Len(u)
        /\ \A k \in 1..Len(gen.pulls) :
              IF k <= Len(u)
              THEN gen.pulls[k] # None /\ gen.pulls[k][1].row = u[k]
              ELSE gen.pulls[k] = None

C8_Witness ==
    /\ Ready
    /\ Len(gen.positions) = 2
    /\ Len(gen.pulls) = 4
    /\ gen.pulls[3] = None /\ gen.pulls[4] = None

\* C9: with index=S the k-th Position pulled has index S + (k - 1); without the
\* override it has the loader's running index k.
C9_IndexOverride ==
    Ready =>
        \A k \in 1..Len(gen.pulls) :
            gen.pulls[k] # None =>
                gen.pulls[k][1].index =
                    IF gen.idx # None THEN gen.idx[1] + (k - 1) ELSE k

C9_Witness ==
    /\ Ready
    /\ gen.idx = Some(100)
    /\ Len(gen.file.rows) = 3
    /\ gen.file.rows[2].k # "ok"
    /\ Len(gen.pulls) >= 2
    /\ gen.pulls[2] # None
    /\ gen.pulls[2][1].row = 3

\* C10: a generator that was constructed holds at least one point, and its first
\* pull yields a Position.
C10_ConstructedNonEmpty ==
    Ready =>
        /\ gen.positions # <<>>
        /\ Len(gen.pulls) >= 1 => gen.pulls[1] # None

\* ---------------------------------------------------------------- C11
\* the clock (gen.now advances by one at every pull) at pull number k
ClockAtPull(k) == gen.now - Len(gen.pulls) + (k - 1)

\* C11: every Position a pull of any file-backed generator (CSV, GeoJSON, NMEA)
\* returns carries the clock value of that pull as its time, never the
\* placeholder or a time read from the file
C11_TimeIsPullTime ==
    Ready => \A k \in 1..Len(gen.pulls) :
        gen.pulls[k] # None => gen.pulls[k][1].time = ClockAtPull(k)

\* ---------------------------------------------------------------- C18
\* the row of the file the pulled Position p was loaded from
RowOf(p) == gen.file.rows[p.row]

\* the duration the loader itself gives a point: the row's own value (CSV,
\* GeoJSON), 1.0 (NMEA)
OwnDuration(p) == IF gen.kind = "nmea" THEN 1 ELSE RowOf(p).dur

\* C18: with duration=D among the arguments every emitted Position has duration
\* D, whatever the loader and whatever the file gives for the point; without it
\* every emitted Position keeps the loader's own per-point value
C18_DurationOverride ==
    Ready => \A k \in 1..Len(gen.pulls) :
        gen.pulls[k] # None =>
            LET p == gen.pulls[k][1] IN
            /\ (\E i \in 1..Len(gen.args) : gen.args[i].key = "duration")
                   => gen.dur # None /\ p.duration = gen.dur[1]
            /\ (\A i \in 1..Len(gen.args) : gen.args[i].key # "duration")
                   => p.duration = OwnDuration(p)

C18_Witness ==
    /\ Ready /\ gen.kind = "csv" /\ gen.dur = Some(5)
    /\ \E k \in 1..Len(gen.pulls) :
          /\ gen.pulls[k] # None
          /\ RowOf(gen.pulls[k][1]).dur = 2
          /\ gen.pulls[k][1].duration = 5

\* ---------------------------------------------------------------- C19
IsOverride(a) == a.key \in {"duration", "index"}
NotOverride(a) == ~IsOverride(a)

\* C19: an override argument whose value does not parse makes the construction
\* fail as a whole (no generator, nothing to pull); the arguments that are no
\* overrides reach the loader unchanged and in their order
C19_BadOverrideFails ==
    gen.state \in {"ready", "failed"} =>
        /\ (\E i \in 1..Len(gen.args) : IsOverride(gen.args[i]) /\ ~gen.args[i].ok)
               => gen.state = "failed" /\ gen.pulls = <<>> /\ gen.positions = <<>>
        /\ gen.state = "ready" => gen.rest = SelectSeq(gen.args, NotOverride)

C19_Witness ==
    /\ gen.state = "failed"
    /\ gen.args = <<PathArg, IdxArg(100), BadDur>>
    /\ gen.file.state = "rows" /\ UsableRows(gen.file.rows) # <<>>
    /\ \A i \in 1..Len(gen.file.rows) : gen.file.rows[i].k = "ok"

\* ---------------------------------------------------------------- C20
\* C20: the NMEA loader skips every line decode() raises on and goes on with the
\* next line, so a readable file always loads; the loaded list is exactly the
\* decodable lines in file order, numbered 1, 2, 3, ... (from the index
\* override on when there is one)
C20_SkipUndecodable ==
    (/\ gen.kind = "nmea" /\ gen.state \in {"ready", "failed"}
     /\ gen.file.state = "rows"
     /\ parse_common_params(gen.args, NoParams).ok
     /\ parse_common_params(gen.args, NoParams).rest # <<>>
     /\ parse_common_params(gen.args, NoParams).rest[1] = PathArg)
    => /\ gen.state = "ready"
       /\ Len(gen.positions) = Len(UsableRows(gen.file.rows))
       /\ \A k \in 1..Len(gen.positions) :
             /\ gen.positions[k].row = UsableRows(gen.file.rows)[k]
             /\ gen.positions[k].index =
                    IF gen.idx = None THEN k ELSE gen.idx[1] + (k - 1)

C20_Witness ==
    /\ gen.kind = "nmea" /\ gen.state = "ready" /\ gen.idx = None
    /\ Len(gen.file.rows) = 3
    /\ gen.file.rows[1].k = "ok" /\ gen.file.rows[2].k = "bad" /\ gen.file.rows[3].k = "ok"
    /\ Len(gen.positions) = 2
    /\ gen.positions[2].row = 3 /\ gen.positions[2].index = 2

\* ---------------------------------------------------------------- C14
InQueue(n) == \E i \in 1..Len(dataQueue) : PairId(dataQueue[i]) = n

\* C14: a pair that is in the queue while the server listens and no stop is
\* requested is eventually dequeued and its broadcast completed, unless a stop
\* is requested first (fair scheduling of the loop thread); and the drain step
\* never calls get() on an empty queue
C14_EnqueuedIsBroadcast ==
    /\ \A n \in 1..MaxPairs :
          (InQueue(n) /\ running /\ serverSocket = "listening")
              ~> (n \in bcastDone \/ ~running)
    /\ [](pc = "get" => dataQueue # <<>>)

\* ---------------------------------------------------------------- C15
\* C15: add_data can complete in every state of the server (whatever the loop
\* thread is doing, whoever holds the lock, with a write blocked on a stalled
\* peer), and the pairs enqueued so far are, each exactly once and in their
\* order, the pairs dequeued followed by the pairs still queued
C15_EnqueueNeverBlocks ==
    /\ nextId <= MaxPairs => ENABLED add_data
    /\ deqLog \o [i \in 1..Len(dataQueue) |-> PairId(dataQueue[i])]
          = [i \in 1..(nextId - 1) |-> i]

C15_Witness ==
    /\ lock = "loop" /\ pc \in {"first", "second"}
    /\ conn[Head(snap)] = "stalled"
    /\ \E s \in Stoppers : stopPc[s] = "cleanup"
    /\ deqLog = <<1>> /\ InQueue(2) /\ nextId = MaxPairs + 1

\* ---------------------------------------------------------------- C16
\* the loop thread has exited: its _cleanup closed and cleared everything
Stopped == pc = "done"

\* C16: the stopped state is terminal: once the loop thread has exited, the
\* listening socket is closed, no client is held or open, and no later start(),
\* add_data() or stop() makes the instance listen, accept or write again
C16_StoppedIsTerminal ==
    /\ [](Stopped => /\ serverSocket = "closed"
                     /\ clients = <<>>
                     /\ \A c \in Conns : conn[c] \notin {"open", "stalled"})
    /\ [][Stopped => /\ Stopped'
                     /\ serverSocket' = "closed"
                     /\ clients' = <<>>
                     /\ conn' = conn /\ backlog' = backlog
                     /\ sent' = sent /\ deqLog' = deqLog]_vars

C16_Witness ==
    /\ Stopped /\ started = "refused"
    /\ \A s \in Stoppers : stopPc[s] = "returned"
    /\ bcastDone = {1} /\ InQueue(2)
    /\ \E c \in Conns : sent[c] # <<>>

\* ---------------------------------------------------------------- C17
\* C17: in the sequence of sentences written to one client the two sentences of
\* a pair are neighbours: nothing of another pair (and nothing else) is written
\* to that client between them
C17_PairBackToBack ==
    \A c \in Conns : \A i, j \in 1..Len(sent[c]) :
        (i < j /\ sent[c][i][2] = sent[c][j][2]) => j = i + 1

C17_Witness ==
    \E c, d \in Conns :
        /\ c # d
        /\ HasBoth(c, 1) /\ HasBoth(c, 2) /\ Len(sent[c]) = 4
        /\ HasBoth(d, 2) /\ Len(sent[d]) = 2

\* ---------------------------------------------------------------- C12
\* the line was built with every part decode needs: it starts with '$', its type
\* is one of the six, it has at least 10 fields, its time is HHMMSS[.fff] (and
\* its date, if any, a date), and as an RMC sentence it carries the flag 'A'
WellFormed(l) ==
    /\ l.lead = <<"$">>
    /\ l.type \in {GPRMC, GNRMC, RMC, GPGGA, GNGGA, GGA}
    /\ l.n >= 10
    /\ l.time = GoodTime
    /\ l.type \in {GPRMC, GNRMC, RMC} => l.layout = "rmc" /\ l.flag = <<"A">>

\* C12: decode returns a Position only for a line that starts with '$', has one
\* of the six types, enough fields, a parseable time and (RMC) the flag 'A';
\* for every other line it raises and returns nothing
C12_DecodeOnlyWellFormed ==
    (codec.shape # None /\ codec.results # <<>>) =>
        /\ codec.results[1].ok => WellFormed(codec.shape[1])
        /\ ~codec.results[1].ok => codec.results[1].pos = <<>>

C12_Witness ==
    /\ codec.shape # None /\ codec.results # <<>>
    /\ codec.shape[1].type = GNRMC /\ codec.shape[1].n = 10
    /\ codec.results[1].ok
    /\ codec.results[1].pos.lat = [ok |-> TRUE, neg |-> FALSE, deg |-> 59, mm |-> 56058000]

\* ---------------------------------------------------------------- C13
\* the decoded coordinate y is the encoded coordinate x within 1e-6 minute, with
\* its sign (a decoded zero has none)
Close(x, y) ==
    /\ y.ok
    /\ Abs(y.deg - x.deg) <= 1
    /\ Abs((y.deg - x.deg) * FracPerDegree + y.mm * 10 - x.frac) <= 10
    /\ \/ y.neg = x.neg
       \/ x.deg = 0 /\ y.deg = 0 /\ x.frac + y.mm * 10 <= 10

\* C13: for every latitude in [-90, 90] and longitude in [-180, 180] the RMC and
\* the GGA sentence the encoder writes decode to the same latitude and longitude,
\* sign included, within 1e-6 minute
C13_CoordinateRoundTrip ==
    (codec.pos # None /\ codec.state = "lines") =>
        \A i \in 1..Len(codec.results) :
            /\ codec.results[i].ok
            /\ Close(codec.pos[1].lat, codec.results[i].pos.lat)
            /\ Close(codec.pos[1].lon, codec.results[i].pos.lon)

C13_Witness ==
    /\ codec.pos # None /\ Len(codec.results) = 2
    /\ codec.pos[1].lat = [neg |-> TRUE, deg |-> 0, frac |-> 300000000]
    /\ codec.pos[1].lon = [neg |-> TRUE, deg |-> 179, frac |-> 599999995]
    /\ codec.results[2].pos.lat = [ok |-> TRUE, neg |-> TRUE, deg |-> 0, mm |-> 30000000]
    /\ codec.results[2].pos.lon = [ok |-> TRUE, neg |-> TRUE, deg |-> 179, mm |-> 60000000]

\* ---------------------------------------------------------------- C21
\* exclusive or of two bytes, bit by bit
Xor2(a, b) ==
    LET bit(k) == (((a \div (2 ^ k)) % 2) + ((b \div (2 ^ k)) % 2)) % 2 IN
    bit(0) + 2 * bit(1) + 4 * bit(2) + 8 * bit(3)
    + 16 * bit(4) + 32 * bit(5) + 64 * bit(6) + 128 * bit(7)

\* the exclusive or of all the characters of s (of its two halves, each folded
\* the same way)
RECURSIVE FoldXor(_)
FoldXor(s) ==
    IF s = <<>> THEN 0
    ELSE IF Len(s) = 1 THEN Ord(s[1])
    ELSE LET half == Len(s) \div 2
             left == FoldXor(SubSeq(s, 1, half))
             right == FoldXor(SubSeq(s, half + 1, Len(s)))
         IN Xor2(left, right)

HexVal(c) == (CHOOSE i \in 1..16 : HexChars[i] = c) - 1

\* s is $<body>*<HH>CRLF, body holds neither '$' nor '*', and HH, two uppercase
\* hexadecimal digits, is the exclusive or of the characters of body
Framed(s) ==
    LET n == Len(s)
        body == SubSeq(s, 2, n - 5)
    IN /\ n >= 6
       /\ s[1] = "$" /\ s[n - 4] = "*" /\ s[n - 1] = "CR" /\ s[n] = "LF"
       /\ "$" \notin Range(body) /\ "*" \notin Range(body)
       /\ s[n - 3] \in Range(HexChars) /\ s[n - 2] \in Range(HexChars)
       /\ 16 * HexVal(s[n - 3]) + HexVal(s[n - 2]) = FoldXor(body)

\* C21: every sentence encode_rmc or encode_gga produces is framed as
\* $<body>*<HH>\r\n with HH the exclusive or of the characters of body as two
\* uppercase hexadecimal digits
C21_ChecksumFraming ==
    (codec.pos # None /\ codec.state = "lines") =>
        \A i \in 1..Len(codec.lines) : Framed(codec.lines[i])

C21_Witness ==
    /\ codec.pos # None /\ codec.state = "lines" /\ Len(codec.lines) = 2
    /\ LET s == codec.lines[1] IN
          /\ SubSeq(s, 1, 6) = <<"$">> \o GPRMC
          /\ s[Len(s) - 2] \in {"A", "B", "C", "D", "E", "F"}
    /\ LET s == codec.lines[2] IN
          /\ SubSeq(s, 1, 6) = <<"$">> \o GPGGA
          /\ SubSeq(s, Len(s) - 4, Len(s)) = <<"*", "6", "1", "CR", "LF">>

\* ---------------------------------------------------------------- C22
StopReturned == \E s \in Stoppers : stopPc[s] = "returned"

\* C22: once a call of stop() has returned the client set is and stays empty, no
\* connection is accepted or added to it, and nothing more is written to any
\* client, whatever the loop thread was doing when stop() was called
C22_QuietAfterStop ==
    /\ [](StopReturned => clients = <<>>)
    /\ [][StopReturned => /\ clients' = <<>>
                          /\ sent' = sent
                          /\ deqLog' = deqLog
                          /\ \A c \in Conns : conn'[c] = "open" => conn[c] = "open"]_vars

\* ---------------------------------------------------------------- C23
\* client d is connected, its peer reads, and pair n is being broadcast to a
\* client list that holds d
Awaits(d, n) ==
    /\ cur # <<>> /\ PairId(cur) = n
    /\ lock = "loop"
    /\ d \in setAtLock[n] /\ conn[d] = "open"
    /\ ~HasBoth(d, n)

\* C23: while the write to one client stalls, every other connected client
\* still gets the pair being broadcast (unless its own write fails, or its own
\* peer stalls), every pair enqueued later is still broadcast, and a peer that
\* connects is still accepted (unless a stop is requested first)
C23_StallIsLocal ==
    /\ \A d \in Conns : \A n \in 1..MaxPairs :
          Awaits(d, n) ~> (HasBoth(d, n) \/ conn[d] # "open")
    /\ \A n \in 1..MaxPairs :
          (InQueue(n) /\ running /\ serverSocket = "listening" /\ clients # <<>>)
              ~> (n \in bcastDone \/ ~running)
    /\ \A c \in Conns :
          (conn[c] = "pending" /\ running /\ serverSocket = "listening")
              ~> (conn[c] # "pending" \/ ~running)

====
